---- MODULE Spec2Model ----
(***************************************************************************)
(* Model of the JSON-over-TCP plugin connection of rhinomcp:               *)
(*   PluginConnection      (shared/python/mcp_shared/connection.py)        *)
(*   RhinoConnection       (rhino_mcp_server/src/rhinomcp/server.py)       *)
(*   GrasshopperConnection (grasshopper_mcp_server/.../server.py)          *)
(* and of the lock-guarded singleton accessors built on top of them.       *)
(*                                                                         *)
(* Bytes are integers 0..255, text is a sequence of code points.  The      *)
(* UTF-8 codec and the JSON scanner are the Python standard library's,     *)
(* modelled for the alphabet the response documents below use: one- and    *)
(* two-byte UTF-8 sequences, JSON objects and strings.                     *)
(***************************************************************************)
EXTENDS Integers, Sequences, FiniteSets, TLC

\* ------------------------------------------------------------------------
\* Bounds of the model
\* ------------------------------------------------------------------------
MaxConns == 2       \* connection instances constructed
MaxSocks == 3       \* socket objects created
MaxChunks == 2      \* pieces in which the peer delivers one reply
MaxPad == 1         \* trailing padding bytes the modelled buffer keeps apart
MaxOps == 3         \* calls each thread makes

\* ------------------------------------------------------------------------
\* Program constants
\* ------------------------------------------------------------------------
BufferSize == 8192  \* receive_full_response(buffer_size=8192)

None == 0           \* Python None, for handles and instance references

\* ------------------------------------------------------------------------
\* UTF-8 (bytes.decode('utf-8') / str.encode('utf-8'))
\* ------------------------------------------------------------------------
RECURSIVE Utf8DecodeFrom(_, _, _)
Utf8DecodeFrom(bs, i, out) ==
    IF i > Len(bs) THEN [ok |-> TRUE, s |-> out]
    ELSE IF bs[i] < 128 THEN Utf8DecodeFrom(bs, i + 1, Append(out, bs[i]))
    ELSE IF /\ bs[i] >= 194 /\ bs[i] <= 223
            /\ i + 1 <= Len(bs)
            /\ bs[i + 1] >= 128 /\ bs[i + 1] <= 191
         THEN Utf8DecodeFrom(bs, i + 2,
                  Append(out, (bs[i] - 192) * 64 + (bs[i + 1] - 128)))
    ELSE [ok |-> FALSE, s |-> <<>>]      \* UnicodeDecodeError

Utf8Decode(bs) == Utf8DecodeFrom(bs, 1, <<>>)

RECURSIVE Utf8Encode(_)
Utf8Encode(s) ==
    IF s = <<>> THEN <<>>
    ELSE (IF Head(s) < 128 THEN <<Head(s)>>
          ELSE <<192 + (Head(s) \div 64), 128 + (Head(s) % 64)>>)
         \o Utf8Encode(Tail(s))

\* ------------------------------------------------------------------------
\* JSON values and the json module's scanner
\* ------------------------------------------------------------------------
\* A decoded value: a string (s = its code points) or an object (m = its
\* set of <<key, value>> pairs, one per key).
JStr(s) == [t |-> "str", s |-> s, m |-> {}]
JObj(m) == [t |-> "obj", s |-> <<>>, m |-> m]
JNull == [t |-> "null", s |-> <<>>, m |-> {}]
EmptyDict == JObj({})

HasKey(v, k) == \E p \in v.m : p[1] = k
DictGet(v, k, default) ==
    IF HasKey(v, k) THEN (CHOOSE p \in v.m : p[1] = k)[2] ELSE default
DictPut(m, k, v) == {p \in m : p[1] # k} \cup {<<k, v>>}

JsonWs == {32, 9, 10, 13}                        \* json.decoder.WHITESPACE
PyWs == {9, 10, 11, 12, 13, 28, 29, 30, 31, 32, 133, 160}   \* str.isspace

Space == 32
Quote == 34
Colon == 58
Comma == 44
Backslash == 92
LBrace == 123
RBrace == 125

ScanFail == [ok |-> FALSE, val |-> JNull, end |-> 0]
ScanOk(v, e) == [ok |-> TRUE, val |-> v, end |-> e]

CharAt(s, i) == IF i >= 1 /\ i <= Len(s) THEN s[i] ELSE -1

RECURSIVE SkipWs(_, _)
SkipWs(s, i) == IF CharAt(s, i) \in JsonWs THEN SkipWs(s, i + 1) ELSE i

Unescape(c) ==
    CASE c = 34 -> 34 [] c = 92 -> 92 [] c = 47 -> 47
      [] c = 98 -> 8 [] c = 102 -> 12 [] c = 110 -> 10
      [] c = 114 -> 13 [] c = 116 -> 9 [] OTHER -> -1

\* py_scanstring(s, end, strict=True): i is the index after the opening
\* quote; the result's end is the index after the closing quote.
RECURSIVE ScanString(_, _, _)
ScanString(s, i, out) ==
    LET c == CharAt(s, i) IN
    IF c = -1 THEN ScanFail                       \* unterminated string
    ELSE IF c = Quote THEN ScanOk(JStr(out), i + 1)
    ELSE IF c = Backslash THEN
        (IF Unescape(CharAt(s, i + 1)) = -1 THEN ScanFail
         ELSE ScanString(s, i + 2, Append(out, Unescape(CharAt(s, i + 1)))))
    ELSE IF c < 32 THEN ScanFail                  \* invalid control character
    ELSE ScanString(s, i + 1, Append(out, c))

RECURSIVE ScanOnce(_, _)
RECURSIVE ScanMembers(_, _, _)

\* JSONObject: i is the index after '{'.
ScanObject(s, i) ==
    LET j == IF CharAt(s, i) = Quote THEN i ELSE SkipWs(s, i) IN
    IF CharAt(s, j) = RBrace THEN ScanOk(EmptyDict, j + 1)
    ELSE IF CharAt(s, j) # Quote THEN ScanFail
    ELSE ScanMembers(s, j + 1, {})

\* The "while True" loop of JSONObject: i is the index after the opening
\* quote of the next key, pairs the members read so far.
ScanMembers(s, i, pairs) ==
    LET key == ScanString(s, i, <<>>) IN
    IF ~key.ok THEN ScanFail
    ELSE
      LET c == SkipWs(s, key.end) IN
      IF CharAt(s, c) # Colon THEN ScanFail
      ELSE
        LET value == ScanOnce(s, SkipWs(s, c + 1)) IN
        IF ~value.ok THEN ScanFail
        ELSE
          LET e == SkipWs(s, value.end)
              m == DictPut(pairs, key.val.s, value.val)
          IN
          IF CharAt(s, e) = RBrace THEN ScanOk(JObj(m), e + 1)
          ELSE IF CharAt(s, e) # Comma THEN ScanFail
          ELSE
            LET k == SkipWs(s, e + 1) IN
            IF CharAt(s, k) # Quote THEN ScanFail
            ELSE ScanMembers(s, k + 1, m)

\* scan_once(s, idx): no whitespace is skipped before the value.
ScanOnce(s, i) ==
    IF CharAt(s, i) = Quote THEN ScanString(s, i + 1, <<>>)
    ELSE IF CharAt(s, i) = LBrace THEN ScanObject(s, i + 1)
    ELSE ScanFail                                 \* "Expecting value"

\* JSONDecoder.raw_decode(s): decodes a document that starts at index 0 and
\* may be followed by extraneous data.
RawDecode(s) == ScanOnce(s, 1)

\* json.loads(s): JSONDecoder.decode, whitespace allowed on both sides and
\* "Extra data" when anything else follows the document.
JsonLoads(s) ==
    LET r == ScanOnce(s, SkipWs(s, 1)) IN
    IF ~r.ok THEN ScanFail
    ELSE IF SkipWs(s, r.end) # Len(s) + 1 THEN ScanFail
    ELSE r

\* json.dumps(v) with the default separators ", " and ": ", for strings
\* of printable ASCII, objects and None.
RECURSIVE DumpString(_)
DumpString(s) ==
    IF s = <<>> THEN <<>>
    ELSE (IF Head(s) \in {Quote, Backslash} THEN <<Backslash, Head(s)>>
          ELSE <<Head(s)>>) \o DumpString(Tail(s))

RECURSIVE JsonDumps(_)
RECURSIVE DumpMembers(_)

\* The members of a dict, in the order of the dict.
DumpMembers(m) ==
    IF m = {} THEN <<>>
    ELSE LET kv == CHOOSE x \in m : TRUE IN
         <<Quote>> \o DumpString(kv[1]) \o <<Quote, Colon, Space>>
         \o JsonDumps(kv[2])
         \o (IF m \ {kv} = {} THEN <<>> ELSE <<Comma, Space>>)
         \o DumpMembers(m \ {kv})

JsonDumps(v) ==
    CASE v.t = "str" -> <<Quote>> \o DumpString(v.s) \o <<Quote>>
      [] v.t = "obj" -> <<LBrace>> \o DumpMembers(v.m) \o <<RBrace>>
      [] OTHER -> <<110, 117, 108, 108>>                       \* null

\* accumulated.rstrip().endswith('}')
RECURSIVE RStrip(_)
RStrip(s) ==
    IF s # <<>> /\ s[Len(s)] \in PyWs THEN RStrip(SubSeq(s, 1, Len(s) - 1))
    ELSE s

\* accumulated.endswith('}'): no rstrip.
EndsWithBraceUntrimmed(s) == s # <<>> /\ s[Len(s)] = RBrace

EndsWithBrace(s) == LET r == RStrip(s) IN r # <<>> /\ r[Len(r)] = RBrace

\* ------------------------------------------------------------------------
\* Response documents the peer may send (bytes)
\* ------------------------------------------------------------------------
\* {"status":"success","result":"a"}
RespSuccess ==
    <<123, 34, 115, 116, 97, 116, 117, 115, 34, 58, 34, 115, 117, 99, 99,
      101, 115, 115, 34, 44, 34, 114, 101, 115, 117, 108, 116, 34, 58, 34,
      97, 34, 125>>
\* {"status":"error","message":"n"}
RespError ==
    <<123, 34, 115, 116, 97, 116, 117, 115, 34, 58, 34, 101, 114, 114, 111,
      114, 34, 44, 34, 109, 101, 115, 115, 97, 103, 101, 34, 58, 34, 110,
      34, 125>>
\* {"status":"error"}
RespErrorNoMessage ==
    <<123, 34, 115, 116, 97, 116, 117, 115, 34, 58, 34, 101, 114, 114, 111,
      114, 34, 125>>
\* {}   (no status, no result)
RespEmptyObject ==
    <<123, 125>>
\* {"result":"é"}   (é is the two bytes 195 169)
RespUtf8 ==
    <<123, 34, 114, 101, 115, 117, 108, 116, 34, 58, 34, 195, 169, 34, 125>>
\* {}}   (a document followed by extra data)
RespExtraData ==
    <<123, 125, 125>>
\*  {"status":"success","result":"a"}   (a document after one space)
RespLeadingWs ==
    <<32, 123, 34, 115, 116, 97, 116, 117, 115, 34, 58, 34, 115, 117, 99,
      99, 101, 115, 115, 34, 44, 34, 114, 101, 115, 117, 108, 116, 34, 58,
      34, 97, 34, 125>>
\* {}\n   (a document and a newline)
RespTrailingNl ==
    <<123, 125, 10>>
\* {"a"   (the peer stops in mid-document)
RespPartial ==
    <<123, 34, 97, 34>>
\* "x"   (a JSON document that is no object)
RespNotObject ==
    <<34, 120, 34>>

AllDocs == {RespSuccess, RespError, RespErrorNoMessage, RespEmptyObject,
            RespUtf8, RespExtraData, RespLeadingWs, RespTrailingNl,
            RespPartial, RespNotObject}
SharedDocs == {RespEmptyObject}
SequenceDocs == {RespEmptyObject, RespTrailingNl}
LiveDocs == {RespEmptyObject, RespTrailingNl, RespPartial, RespNotObject}

KeyStatus == <<115, 116, 97, 116, 117, 115>>
KeyType == <<116, 121, 112, 101>>
KeyParams == <<112, 97, 114, 97, 109, 115>>
KeyResult == <<114, 101, 115, 117, 108, 116>>
KeyMessage == <<109, 101, 115, 115, 97, 103, 101>>
TextError == <<101, 114, 114, 111, 114>>
TextSuccess == <<115, 117, 99, 99, 101, 115, 115>>

\* ------------------------------------------------------------------------
\* The three connection classes and their literal texts
\* ------------------------------------------------------------------------
Classes == {"PluginConnection", "RhinoConnection", "GrasshopperConnection"}

PeerName(k) ==
    CASE k = "PluginConnection" -> "plugin"
      [] k = "RhinoConnection" -> "Rhino"
      [] OTHER -> "Grasshopper"

NotConnectedText(k) ==
    CASE k = "PluginConnection" -> "Not connected to plugin"
      [] k = "RhinoConnection" -> "Not connected to Rhino"
      [] OTHER -> "Not connected to Grasshopper"

\* The message of the exception get_connection raises.
CouldNotConnectText(k) ==
    CASE k = "PluginConnection" ->
           "Could not connect to plugin. Make sure it's running."
      [] k = "RhinoConnection" ->
           "Could not connect to Rhino. Make sure the Rhino addon is running."
      [] OTHER ->
           "Could not connect to Grasshopper. Make sure the GH plugin is running (GHMCPStart command)."

\* The words of a message, split at the spaces.
Words(text) ==
    CASE text = "Not connected to plugin" ->
           <<"Not", "connected", "to", "plugin">>
      [] text = "Not connected to Rhino" ->
           <<"Not", "connected", "to", "Rhino">>
      [] text = "Not connected to Grasshopper" ->
           <<"Not", "connected", "to", "Grasshopper">>
      [] text = "Could not connect to plugin. Make sure it's running." ->
           <<"Could", "not", "connect", "to", "plugin.", "Make", "sure",
             "it's", "running.">>
      [] text = "Could not connect to Rhino. Make sure the Rhino addon is running." ->
           <<"Could", "not", "connect", "to", "Rhino.", "Make", "sure",
             "the", "Rhino", "addon", "is", "running.">>
      [] text = "Could not connect to Grasshopper. Make sure the GH plugin is running (GHMCPStart command)." ->
           <<"Could", "not", "connect", "to", "Grasshopper.", "Make", "sure",
             "the", "GH", "plugin", "is", "running", "(GHMCPStart",
             "command).">>
      [] OTHER -> <<>>

TimeoutText(k) ==
    CASE k = "PluginConnection" ->
           "Timeout waiting for plugin response - try simplifying your request"
      [] k = "RhinoConnection" ->
           "Timeout waiting for Rhino response - try simplifying your request"
      [] OTHER -> "Timeout waiting for Grasshopper response"

UnknownErrorText(k) ==
    CASE k = "PluginConnection" -> "Unknown error from plugin"
      [] k = "RhinoConnection" -> "Unknown error from Rhino"
      [] OTHER -> "Unknown error from Grasshopper"

\* The text each except clause of send_command puts before str(e).
Prefix(k, cat) ==
    CASE cat = "ConnectionLost" ->
           (CASE k = "PluginConnection" -> "Connection to plugin lost: "
              [] k = "RhinoConnection" -> "Connection to Rhino lost: "
              [] OTHER -> "Connection to Grasshopper lost: ")
      [] cat = "InvalidResponse" ->
           (CASE k = "PluginConnection" -> "Invalid response from plugin: "
              [] k = "RhinoConnection" -> "Invalid response from Rhino: "
              [] OTHER -> "Invalid response from Grasshopper: ")
      [] cat = "Communication" ->
           (CASE k = "PluginConnection" -> "Communication error with plugin: "
              [] k = "RhinoConnection" -> "Communication error with Rhino: "
              [] OTHER -> "Communication error with Grasshopper: ")
      [] OTHER -> ""

\* ------------------------------------------------------------------------
\* What the body of send_command's try block produces: a returned value or
\* a raised exception (its Python type, the place that raised it and its
\* message: the remote's text or a local literal).
\* ------------------------------------------------------------------------
Ok(v) == [raised |-> FALSE, type |-> "", origin |-> "", remote |-> FALSE,
          text |-> <<>>, local |-> "", val |-> v]
Err(type, origin, local) ==
    [raised |-> TRUE, type |-> type, origin |-> origin, remote |-> FALSE,
     text |-> <<>>, local |-> local, val |-> JNull]
RemoteErr(text) ==
    [raised |-> TRUE, type |-> "Exception", origin |-> "status-error",
     remote |-> TRUE, text |-> text, local |-> "", val |-> JNull]

\* F applied to the value of x: x is evaluated once, as an assignment of
\* the code evaluates its right-hand side once.
Bind(F(_), x) == CHOOSE y \in {F(v) : v \in {x}} : TRUE

\* The command_type of the calls: "ping".
CommandType == <<112, 105, 110, 103>>

\* The params arguments of the calls: None, {} and {"a": "b"}.
ParamsNone == JNull
ParamsEmpty == EmptyDict
ParamsOne == JObj({<<(<<97>>), JStr(<<98>>)>>})
AllParams == {ParamsNone, ParamsEmpty, ParamsOne}

\* bool(v) is False.
Falsy(v) == v = JNull \/ v = EmptyDict \/ v = JStr(<<>>)

\* A command that carries the params argument as it is given.
CommandParamsRaw(params) == params

\* "params or {}"
CommandParams(params) == IF Falsy(params) THEN EmptyDict ELSE params

\* command = {"type": command_type, "params": params or {}}
CommandDocument(type, params) ==
    JObj({<<KeyType, JStr(type)>>, <<KeyParams, CommandParams(params)>>})

\* json.dumps(command).encode('utf-8')
CommandJson(type, params) == Utf8Encode(JsonDumps(CommandDocument(type, params)))

\* send_command after the receive: json.loads, the status test, the result.
ParseResponse(k, data) ==
    LET Response(r) ==
          IF ~r.ok THEN Err("JSONDecodeError", "json.loads", "JSONDecodeError")
          ELSE IF r.val.t # "obj"
               THEN Err("AttributeError", "response.get", "no attribute 'get'")
          ELSE IF DictGet(r.val, KeyStatus, JNull) = JStr(TextError)
               THEN (IF ~HasKey(r.val, KeyMessage)
                     THEN [RemoteErr(<<>>) EXCEPT !.remote = FALSE,
                                                  !.local = UnknownErrorText(k)]
                     ELSE IF DictGet(r.val, KeyMessage, JNull).t = "str"
                     THEN RemoteErr(DictGet(r.val, KeyMessage, JNull).s)
                     ELSE [RemoteErr(<<>>) EXCEPT !.local = "str(message)"])
          ELSE Ok(DictGet(r.val, KeyResult, EmptyDict))
        Text(txt) ==
          IF ~txt.ok THEN Err("UnicodeDecodeError", "response-decode", "utf-8")
          ELSE Bind(Response, JsonLoads(txt.s))
    IN
    Bind(Text, Utf8Decode(data))

\* receive_full_response after the loop: "Try to use what we have".
\* A final decode with no "if chunks:" test: an empty buffer is decoded
\* like any other.
FinalDecodeAlways(k, acc) ==
    IF RawDecode(acc).ok THEN ParseResponse(k, Utf8Encode(acc))
    ELSE Err("Exception", "final-decode", "Incomplete JSON response received")

FinalDecode(k, acc) ==
    IF acc # <<>>
    THEN (IF RawDecode(acc).ok THEN ParseResponse(k, Utf8Encode(acc))
          ELSE Err("Exception", "final-decode",
                   "Incomplete JSON response received"))
    ELSE Err("Exception", "no-data", "No data received")

Continue(acc) == [done |-> FALSE, acc |-> acc, res |-> Ok(JNull)]
Done(acc, res) == [done |-> TRUE, acc |-> acc, res |-> res]

\* One pass of the receive loop with a non-empty chunk.
ReceiveChunk(k, acc, chunk) ==
    LET Accumulate(acc2) ==
          IF EndsWithBrace(acc2) /\ RawDecode(acc2).ok
          THEN Done(acc2, ParseResponse(k, Utf8Encode(acc2)))
          ELSE Continue(acc2)
        Decoded(d) ==
          IF ~d.ok
          THEN Done(acc, Err("UnicodeDecodeError", "chunk-decode", "utf-8"))
          ELSE Bind(Accumulate, acc \o d.s)
    IN
    Bind(Decoded, Utf8Decode(chunk))

\* One pass of the receive loop when recv returns b'' (the peer closed).
ReceiveEof(k, acc) ==
    IF acc = <<>>
    THEN Done(acc, Err("Exception", "closed-empty",
                       "Connection closed before receiving any data"))
    ELSE Done(acc, FinalDecode(k, acc))

\* A receive loop that lets socket.timeout escape: a timeout is a failure
\* whatever has been received.
ReceiveTimeoutRaises(k, acc) ==
    Done(acc, Err("socket.timeout", "recv", "timed out"))

\* One pass of the receive loop when recv raises socket.timeout.
ReceiveTimeout(k, acc) == Done(acc, FinalDecode(k, acc))

\* The except clause of send_command that catches an exception type.
ExceptClause(type) ==
    CASE type = "socket.timeout" -> "Timeout"
      [] type = "ConnectionError" -> "ConnectionLost"
      [] type = "JSONDecodeError" -> "InvalidResponse"
      [] OTHER -> "Communication"

\* Whether the except clause sets self.sock = None.
Invalidates(cat) == cat # "InvalidResponse"

NoOutcome == [op |-> "", kind |-> "none", cat |-> "", origin |-> "",
              prefix |-> "",
              remote |-> FALSE, text |-> <<>>, local |-> "", val |-> JNull,
              chunks |-> 0, timedOut |-> FALSE,
              ret |-> FALSE, closeErr |-> FALSE]

\* A GrasshopperConnection whose send_command has no clause for
\* json.JSONDecodeError: the clause for Exception catches it.
SendCommandOutcomeDiverging(k, res) ==
    IF ~res.raised
    THEN [NoOutcome EXCEPT !.op = "send_command", !.kind = "return",
                           !.val = res.val]
    ELSE LET cat == IF /\ k = "GrasshopperConnection"
                       /\ ExceptClause(res.type) = "InvalidResponse"
                    THEN "Communication" ELSE ExceptClause(res.type) IN
         IF cat = "Timeout"
         THEN [NoOutcome EXCEPT !.op = "send_command", !.kind = "raise",
                                !.cat = cat, !.origin = res.origin,
                                !.local = TimeoutText(k)]
         ELSE [NoOutcome EXCEPT !.op = "send_command", !.kind = "raise",
                                !.cat = cat,
                                !.origin = res.origin,
                                !.prefix = Prefix(k, cat),
                                !.remote = res.remote, !.text = res.text,
                                !.local = res.local]

\* What the caller of send_command observes.
SendCommandOutcome(k, res) ==
    IF ~res.raised
    THEN [NoOutcome EXCEPT !.op = "send_command", !.kind = "return",
                           !.val = res.val]
    ELSE LET cat == ExceptClause(res.type) IN
         IF cat = "Timeout"
         THEN [NoOutcome EXCEPT !.op = "send_command", !.kind = "raise",
                                !.cat = cat, !.origin = res.origin,
                                !.local = TimeoutText(k)]
         ELSE [NoOutcome EXCEPT !.op = "send_command", !.kind = "raise",
                                !.cat = cat,
                                !.origin = res.origin,
                                !.prefix = Prefix(k, cat),
                                !.remote = res.remote, !.text = res.text,
                                !.local = res.local]

NotConnectedOutcome(k) ==
    [NoOutcome EXCEPT !.op = "send_command", !.kind = "raise",
                      !.cat = "NotConnected", !.origin = "connect",
                      !.local = NotConnectedText(k)]

\* ------------------------------------------------------------------------
\* State
\* ------------------------------------------------------------------------
VARIABLES
    cls,        \* the connection class (and its accessor) in use
    threads,    \* the threads that make calls
    docs,       \* the documents the peer chooses its replies from
    chunkLimit, \* the number of pieces the peer delivers a reply in
    opLimit,    \* the number of calls each thread makes
    argSet,     \* the params arguments the callers of send_command pass
    padCap,     \* 0, or: the peer may pad a reply with spaces for ever, and
                \* the modelled buffer keeps padCap trailing spaces apart
    slot,       \* the singleton slot (_connection, _rhino_connection, ...)
    lock,       \* the accessor's lock: None or the thread that holds it
    nconn,      \* connection instances constructed so far (1..nconn)
    sock,       \* sock[c]: the socket handle of instance c, or None
    inflight,   \* inflight[c]: commands written by calls not yet completed
    lastOut,    \* lastOut[c]: outcome of the send_command that was the last
                \* call made on c (NoOutcome after connect or disconnect)
    nsock,      \* socket objects created so far (1..nsock)
    sockets,    \* sockets[s]: the socket object s and its peer
    pc,         \* pc[t]: where thread t is
    held,       \* held[t]: the instance thread t holds a reference to
    call,       \* call[t]: the locals of thread t's send_command
    outcome,    \* outcome[t]: what thread t's last send_command produced
    nops,       \* nops[t]: calls thread t has started
    tornDown,   \* a teardown of the singleton has started
    refused,    \* a TCP connect has been refused
    env,        \* os.environ now: the host, port and timeout it gives
    conf,       \* conf[c]: the host, port and timeout instance c uses
    life        \* the server lifespan: its phase, whether the get_connection
                \* of the startup returned, whether the body raised

cfgVars == <<cls, threads, docs, chunkLimit, opLimit, argSet, padCap>>
accVars == <<slot, lock>>
connVars == <<nconn, sock, inflight, lastOut>>
sockVars == <<nsock, sockets>>
thrVars == <<pc, held, call, outcome, nops>>
histVars == <<tornDown, refused>>
envVars == <<env, conf>>
vars == <<cls, threads, docs, chunkLimit, opLimit, argSet, padCap, slot, lock, nconn, sock, inflight,
          lastOut, nsock, sockets, pc, held, call, outcome, nops, tornDown,
          refused, env, conf, life>>

AllThreads == {1, 2}
Conns == 1..(MaxConns + 1)
Socks == 1..(MaxSocks + 1)

\* A socket object: the peer's end ("none": no such socket yet, "refused",
\* "open", "closed": the peer sent FIN, "reset": the peer sent RST), the
\* bytes readable now, the bytes the peer will still deliver, the commands
\* the peer has not answered, the pieces delivered of the current reply,
\* and whether close() was called on it.
NoSocket == [peer |-> "none", inbuf |-> <<>>, todo |-> <<>>, owed |-> 0,
             ndeliv |-> 0, closed |-> FALSE]

NewCall == [sock |-> None, accumulated |-> <<>>, raw |-> <<>>, nrecv |-> 0,
            timedOut |-> FALSE, didConnect |-> FALSE, wrote |-> FALSE,
            prev |-> NoOutcome, params |-> ParamsNone, sent |-> <<>>]

\* ------------------------------------------------------------------------
\* Host, port and timeout
\* ------------------------------------------------------------------------
\* The environment the process is started with, and one that differs from
\* it in every setting.
StartEnv == [host |-> "127.0.0.1", port |-> 1999, timeout |-> 15]
OtherEnv == [host |-> "192.168.0.2", port |-> 2999, timeout |-> 30]
Environments == {StartEnv, OtherEnv}

\* No instance: no setting.
NoConfig == [host |-> "", port |-> 0, timeout |-> 0]

\* The module-level constants of the Rhino and Grasshopper servers
\* (RHINO_HOST = os.getenv(...), ...), evaluated when the module is imported.
ModuleConstants == StartEnv

\* The settings an accessor constructs its instance with. The accessor of
\* create_connection_manager calls os.getenv inside get_connection; those of
\* the Rhino and Grasshopper servers pass the module-level constants (and
\* RhinoConnection, which has no timeout field, uses RHINO_TIMEOUT).
AccessorConfig(k) ==
    IF k = "PluginConnection" THEN env ELSE ModuleConstants

\* No lifespan has been entered.
NoLife == [phase |-> "none", connected |-> FALSE, bodyRaised |-> FALSE]

InitCommon ==
    /\ cls \in Classes
    /\ life = NoLife
    /\ env = StartEnv /\ conf = [c \in Conns |-> NoConfig]
    /\ slot = None /\ lock = None
    /\ nconn = 0
    /\ sock = [c \in Conns |-> None]
    /\ inflight = [c \in Conns |-> 0]
    /\ lastOut = [c \in Conns |-> NoOutcome]
    /\ nsock = 0
    /\ sockets = [s \in Socks |-> NoSocket]
    /\ pc = [t \in AllThreads |-> "idle"]
    /\ held = [t \in AllThreads |-> None]
    /\ call = [t \in AllThreads |-> NewCall]
    /\ outcome = [t \in AllThreads |-> NoOutcome]
    /\ nops = [t \in AllThreads |-> 0]
    /\ tornDown = FALSE /\ refused = FALSE

\* One caller; the peer may send any document, each in one piece.
Init ==
    /\ InitCommon /\ argSet = {ParamsNone}
    /\ threads = {1} /\ docs = AllDocs /\ chunkLimit = 1
    /\ opLimit = MaxOps /\ padCap = 0

\* One caller in the receive loop of a send_command on a fresh connection
\* (after NewConnection, ScBegin, ScSend and ScReceiveStart); the peer may
\* send any document, in up to MaxChunks pieces.
InReceiveLoop ==
    /\ cls \in Classes
    /\ threads = {1} /\ chunkLimit = MaxChunks
    /\ argSet = {ParamsNone}
    /\ opLimit = 2
    /\ slot = None /\ lock = None
    /\ nconn = 1
    /\ sock = [c \in Conns |-> IF c = 1 THEN 1 ELSE None]
    /\ inflight = [c \in Conns |-> IF c = 1 THEN 1 ELSE 0]
    /\ lastOut = [c \in Conns |-> NoOutcome]
    /\ nsock = 1
    /\ sockets = [s \in Socks |->
          IF s = 1 THEN [NoSocket EXCEPT !.peer = "open", !.owed = 1]
          ELSE NoSocket]
    /\ pc = [t \in AllThreads |-> IF t = 1 THEN "recv" ELSE "idle"]
    /\ held = [t \in AllThreads |-> IF t = 1 THEN 1 ELSE None]
    /\ call = [t \in AllThreads |->
          IF t = 1 THEN [NewCall EXCEPT !.sock = 1, !.didConnect = TRUE,
                                        !.wrote = TRUE,
                                        !.sent = CommandJson(CommandType,
                                                             ParamsNone)]
          ELSE NewCall]
    /\ outcome = [t \in AllThreads |-> NoOutcome]
    /\ nops = [t \in AllThreads |-> IF t = 1 THEN 2 ELSE 0]
    /\ tornDown = FALSE /\ refused = FALSE
    /\ env = StartEnv
    /\ conf = [c \in Conns |-> IF c = 1 THEN StartEnv ELSE NoConfig]
    /\ life = NoLife

InitReceive == InReceiveLoop /\ docs = AllDocs /\ padCap = 0

\* The same, with a peer that may go on padding its reply with spaces.
InitLive == InReceiveLoop /\ docs = LiveDocs /\ padCap = MaxPad

\* Two callers that share the accessor.
InitShared ==
    /\ InitCommon /\ argSet = {ParamsNone}
    /\ threads = {1, 2} /\ docs = SharedDocs /\ chunkLimit = 1
    /\ opLimit = MaxOps - 1 /\ padCap = 0

\* ------------------------------------------------------------------------
\* Sockets
\* ------------------------------------------------------------------------
Receiving(t, s) == pc[t] = "recv" /\ call[t].sock = s

\* The socket is referenced by an instance or by a receive in progress.
InUse(s) == (\E c \in 1..nconn : sock[c] = s) \/ (\E t \in threads : Receiving(t, s))

\* The kernel's buffers of a socket that was closed or is referenced no more.
Discard(so) == [so EXCEPT !.inbuf = <<>>, !.todo = <<>>, !.owed = 0,
                          !.ndeliv = 0]

\* A connect() that tests the liveness of a present handle and replaces a
\* socket the peer has closed or reset.
ConnectVerifying(c, ok) ==
    IF sock[c] # None /\ sockets[sock[c]].peer = "open"
    THEN UNCHANGED <<sock, nsock, sockets, refused>>
    ELSE /\ nsock' = nsock + 1
         /\ sockets' = [sockets EXCEPT ![nsock + 1] =
                [NoSocket EXCEPT !.peer = IF ok THEN "open" ELSE "refused"]]
         /\ sock' = [sock EXCEPT ![c] = IF ok THEN nsock + 1 ELSE None]
         /\ refused' = (refused \/ ~ok)

\* connect(): the socket is created, then connected; ok = the TCP connect
\* succeeds.  A present handle is kept as it is.
ConnectEffect(c, ok) ==
    IF sock[c] # None THEN UNCHANGED <<sock, nsock, sockets, refused>>
    ELSE /\ nsock' = nsock + 1
         /\ sockets' = [sockets EXCEPT ![nsock + 1] =
                [NoSocket EXCEPT !.peer = IF ok THEN "open" ELSE "refused"]]
         /\ sock' = [sock EXCEPT ![c] = IF ok THEN nsock + 1 ELSE None]
         /\ refused' = (refused \/ ~ok)

\* The value connect() returns.
ConnectResult(c, ok) == sock[c] # None \/ ok

\* A disconnect() with no finally block: the handle survives a close()
\* that raised.
DisconnectNoFinally(c, thr) ==
    /\ lastOut' = [lastOut EXCEPT ![c] = NoOutcome]
    /\ IF sock[c] # None
       THEN /\ sockets' = [sockets EXCEPT ![sock[c]] =
                               [Discard(@) EXCEPT !.closed = TRUE]]
            /\ sock' = [sock EXCEPT ![c] = IF thr THEN @ ELSE None]
       ELSE UNCHANGED <<sock, sockets>>

\* disconnect(): close the socket if there is one, clear the handle. When
\* thr, close() raises: the except clause logs the error and the finally
\* block clears the handle all the same.
DisconnectEffect(c, thr) ==
    /\ lastOut' = [lastOut EXCEPT ![c] = NoOutcome]
    /\ IF sock[c] # None
       THEN /\ sockets' = [sockets EXCEPT ![sock[c]] =
                               [Discard(@) EXCEPT !.closed = TRUE]]
            /\ sock' = [sock EXCEPT ![c] = None]
       ELSE UNCHANGED <<sock, sockets>>

\* What the caller of connect() observes: the value returned, and which
\* return statement gave it (origin).  "stale-handle" is the first return
\* taken while the peer of the present socket has closed or reset it, which
\* connect() does not look at.
ConnectOutcome(c, ok) ==
    [NoOutcome EXCEPT !.op = "connect", !.kind = "return",
                      !.ret = ConnectResult(c, ok),
                      !.origin = IF sock[c] = None THEN "new-socket"
                                 ELSE IF sockets[sock[c]].peer = "open"
                                 THEN "handle" ELSE "stale-handle"]

\* What the caller of disconnect() observes: a return, whether there was a
\* socket to close (origin) and whether close() raised.
DisconnectOutcome(c, thr) ==
    [NoOutcome EXCEPT !.op = "disconnect", !.kind = "return",
                      !.origin = IF sock[c] # None THEN "close" ELSE "no-socket",
                      !.closeErr = (sock[c] # None /\ thr)]

\* ------------------------------------------------------------------------
\* Direct use of an instance: construction, connect(), disconnect()
\* ------------------------------------------------------------------------
CanCall(t) == t \in threads /\ pc[t] = "idle" /\ nops[t] < opLimit

NewConnection(t) ==
    /\ CanCall(t) /\ nconn < MaxConns
    /\ nconn' = nconn + 1
    /\ conf' = [conf EXCEPT ![nconn + 1] = StartEnv]
    /\ held' = [held EXCEPT ![t] = nconn + 1]
    /\ nops' = [nops EXCEPT ![t] = @ + 1]
    /\ UNCHANGED <<cfgVars, env, life, accVars, sock, inflight, lastOut, sockVars, pc,
                   call, outcome, histVars>>

Connect(t, ok) ==
    /\ CanCall(t) /\ held[t] # None
    /\ sock[held[t]] = None => nsock < MaxSocks
    /\ ConnectEffect(held[t], ok)
    /\ outcome' = [outcome EXCEPT ![t] = ConnectOutcome(held[t], ok)]
    /\ lastOut' = [lastOut EXCEPT ![held[t]] = NoOutcome]
    /\ nops' = [nops EXCEPT ![t] = @ + 1]
    /\ UNCHANGED <<cfgVars, envVars, life, accVars, nconn, inflight, pc, held, call,
                   tornDown>>

Disconnect(t, thr) ==
    /\ CanCall(t) /\ held[t] # None
    /\ DisconnectEffect(held[t], thr)
    /\ outcome' = [outcome EXCEPT ![t] = DisconnectOutcome(held[t], thr)]
    /\ nops' = [nops EXCEPT ![t] = @ + 1]
    /\ UNCHANGED <<cfgVars, envVars, life, accVars, nconn, inflight, nsock, pc, held, call,
                   histVars>>

\* ------------------------------------------------------------------------
\* send_command, one step per blocking call on the socket
\* ------------------------------------------------------------------------
\* A send_command that gives up its socket after every command.
DropsAlways(res, cat) == TRUE

\* The call that ends with res gives up the handle: an except clause that
\* sets self.sock = None has run; the return statement leaves it alone.
Drops(res, cat) == res.raised /\ Invalidates(cat)

\* A send_command that starts over at its sendall when an exception was
\* caught.
AfterCallRetrying(res) == IF res.raised THEN "send" ELSE "idle"

\* Where the thread is once send_command has ended with res: the return
\* statement and the raise of every except clause give control back to the
\* caller.
AfterCall(res) == "idle"

\* The call of thread t on instance c ends with res, its locals being cl and
\* the sockets socks2: the except clauses run, the caller gets its outcome
\* (with the number of chunks the call received and whether a recv timed
\* out), and a socket nothing refers to any more is released with its
\* buffers.
Settle(t, c, res, socks2, cl) ==
    \E r \in {res} :
    \E out \in {[SendCommandOutcome(cls, r) EXCEPT !.chunks = cl.nrecv,
                                                  !.timedOut = cl.timedOut]} :
    LET drop == Drops(r, out.cat) IN
    /\ call' = [call EXCEPT ![t] = NewCall]
    /\ outcome' = [outcome EXCEPT ![t] = out]
    /\ lastOut' = [lastOut EXCEPT ![c] = out]
    /\ sock' = IF drop THEN [sock EXCEPT ![c] = None] ELSE sock
    /\ sockets' = [x \in Socks |->
          IF \/ \E c2 \in 1..nconn : sock'[c2] = x
             \/ \E u \in threads \ {t} : Receiving(u, x)
          THEN socks2[x] ELSE Discard(socks2[x])]
    /\ inflight' = [inflight EXCEPT ![c] = IF call[t].wrote THEN @ - 1 ELSE @]
    /\ pc' = [pc EXCEPT ![t] = AfterCall(r)]

\* "if not self.sock and not self.connect(): raise ConnectionError(...)"
ScBegin(t, ok) ==
    /\ CanCall(t) /\ held[t] # None
    /\ sock[held[t]] = None => nsock < MaxSocks
    /\ LET c == held[t] IN
       /\ ConnectEffect(c, ok)
       /\ \E p \in argSet :
            call' = [call EXCEPT ![t] =
              [NewCall EXCEPT !.didConnect = (sock[c] = None),
                              !.prev = lastOut[c],
                              !.params = p]]
       /\ IF ConnectResult(c, ok)
          THEN /\ pc' = [pc EXCEPT ![t] = "send"]
               /\ UNCHANGED <<outcome, lastOut>>
          ELSE /\ pc' = [pc EXCEPT ![t] = "idle"]
               /\ outcome' = [outcome EXCEPT ![t] = NotConnectedOutcome(cls)]
               /\ lastOut' = [lastOut EXCEPT ![c] = NotConnectedOutcome(cls)]
    /\ nops' = [nops EXCEPT ![t] = @ + 1]
    /\ UNCHANGED <<cfgVars, envVars, life, accVars, nconn, inflight, held, tornDown>>

\* A send_command that writes its command twice.
WrittenTwice(c) == 2

\* The number of documents one sendall of send_command writes.
Written(c) == 1

\* "if self.sock is None: raise ...; self.sock.sendall(command_json)"
ScSend(t) ==
    /\ t \in threads /\ pc[t] = "send"
    /\ LET c == held[t]
           s == sock[c]
       IN
       IF s = None
       THEN /\ Settle(t, c, Err("Exception", "sock-none",
                                "Socket is not connected"), sockets, call[t])
       ELSE IF sockets[s].peer = "reset"
       THEN Settle(t, c, Err("ConnectionError", "sendall", "Broken pipe"),
                   sockets, call[t])
       ELSE /\ sockets' = [sockets EXCEPT ![s].owed =
                   IF sockets[s].peer = "open" THEN @ + Written(c) ELSE @]
            /\ inflight' = [inflight EXCEPT ![c] = @ + Written(c)]
            /\ call' = [call EXCEPT
                   ![t].wrote = TRUE,
                   ![t].sent = @ \o CommandJson(CommandType, call[t].params)]
            /\ pc' = [pc EXCEPT ![t] = "rx"]
            /\ UNCHANGED <<sock, lastOut, outcome>>
    /\ UNCHANGED <<cfgVars, envVars, life, accVars, nconn, nsock, held, nops, histVars>>

\* "self.sock.settimeout(...); self.receive_full_response(self.sock)" up to
\* the first recv.
ScReceiveStart(t) ==
    /\ t \in threads /\ pc[t] = "rx"
    /\ LET c == held[t] IN
       IF sock[c] = None
       THEN Settle(t, c, Err("AttributeError", "settimeout",
                             "no attribute 'settimeout'"), sockets, call[t])
       ELSE /\ call' = [call EXCEPT ![t].sock = sock[c],
                                    ![t].accumulated = <<>>]
            /\ pc' = [pc EXCEPT ![t] = "recv"]
            /\ UNCHANGED <<sock, sockets, inflight, lastOut, outcome>>
    /\ UNCHANGED <<cfgVars, envVars, life, accVars, nconn, nsock, held, nops, histVars>>

Min(a, b) == IF a < b THEN a ELSE b

\* One "chunk = sock.recv(buffer_size)" that does not time out, and what
\* the loop does with it.
\* The chunk is padding that follows padCap bytes of padding: the modelled
\* buffer then stands for the real one, which differs from it only in the
\* number of spaces at its end (rstrip and raw_decode do not tell them
\* apart).
Padded(acc, chunk) ==
    /\ padCap > 0
    /\ \A i \in DOMAIN chunk : chunk[i] = Space
    /\ Len(acc) >= padCap
    /\ \A i \in (Len(acc) - padCap + 1)..Len(acc) : acc[i] = Space

ScRecv(t) ==
    /\ t \in threads /\ pc[t] = "recv"
    /\ LET c == held[t]
           s == call[t].sock
           so == sockets[s]
           acc == call[t].accumulated
           n == Min(BufferSize, Len(so.inbuf))
           chunk == SubSeq(so.inbuf, 1, n)
           rest == [sockets EXCEPT
                       ![s].inbuf = SubSeq(so.inbuf, n + 1, Len(so.inbuf))]
       IN
       /\ so.closed \/ so.peer \in {"reset", "closed"} \/ so.inbuf # <<>>
       /\ IF so.closed
          THEN Settle(t, c, Err("OSError", "recv", "Bad file descriptor"),
                      sockets, call[t])
          ELSE IF so.peer = "reset"
          THEN Settle(t, c, Err("ConnectionError", "recv",
                                "Connection reset by peer"), sockets, call[t])
          ELSE IF so.inbuf # <<>>
          THEN \E lr \in {ReceiveChunk(cls, acc, chunk)} :
               LET cl == IF Padded(acc, chunk) THEN call[t]
                         ELSE [call[t] EXCEPT !.accumulated = lr.acc,
                                              !.raw = @ \o chunk,
                                              !.nrecv = @ + 1]
               IN
               IF lr.done THEN Settle(t, c, lr.res, rest, cl)
               ELSE /\ call' = [call EXCEPT ![t] = cl]
                    /\ sockets' = rest
                    /\ UNCHANGED <<sock, inflight, lastOut, outcome, pc>>
          ELSE Settle(t, c, ReceiveEof(cls, acc).res, sockets, call[t])
    /\ UNCHANGED <<cfgVars, envVars, life, accVars, nconn, nsock, held, nops, histVars>>

\* A recv that raises socket.timeout: nothing arrived for `timeout` seconds.
ScRecvTimeout(t) ==
    /\ t \in threads /\ pc[t] = "recv"
    /\ LET c == held[t]
           so == sockets[call[t].sock]
       IN
       /\ ~so.closed /\ so.peer = "open" /\ so.inbuf = <<>>
       /\ Settle(t, c, ReceiveTimeout(cls, call[t].accumulated).res, sockets,
                 [call[t] EXCEPT !.timedOut = TRUE])
    /\ UNCHANGED <<cfgVars, envVars, life, accVars, nconn, nsock, held, nops, histVars>>

\* ------------------------------------------------------------------------
\* The peer (the plugin inside the CAD application)
\* ------------------------------------------------------------------------
\* The peer answers a command with document d.
PeerReply(s, d) ==
    /\ s \in 1..nsock /\ InUse(s) /\ d \in docs
    /\ sockets[s].peer = "open" /\ sockets[s].owed > 0
    /\ sockets[s].todo = <<>>
    /\ sockets' = [sockets EXCEPT ![s].owed = @ - 1, ![s].todo = d,
                                  ![s].ndeliv = 0]
    /\ UNCHANGED <<cfgVars, envVars, life, accVars, connVars, nsock, thrVars, histVars>>

\* The next n bytes of the reply arrive.
PeerDeliver(s, n) ==
    /\ s \in 1..nsock /\ InUse(s)
    /\ sockets[s].peer = "open"
    /\ n \in 1..Len(sockets[s].todo)
    /\ n = Len(sockets[s].todo) \/ sockets[s].ndeliv + 1 < chunkLimit
    /\ sockets' = [sockets EXCEPT
           ![s].inbuf = @ \o SubSeq(sockets[s].todo, 1, n),
           ![s].todo = SubSeq(@, n + 1, Len(@)),
           ![s].ndeliv = @ + 1]
    /\ UNCHANGED <<cfgVars, envVars, life, accVars, connVars, nsock, thrVars, histVars>>

\* After its reply the peer sends one more space, in time for the recv
\* that waits for it.
PeerPad(s) ==
    /\ padCap > 0
    /\ s \in 1..nsock /\ \E t \in threads : Receiving(t, s)
    /\ sockets[s].peer = "open" /\ sockets[s].owed = 0
    /\ sockets[s].todo = <<>> /\ sockets[s].inbuf = <<>>
    /\ sockets' = [sockets EXCEPT ![s].inbuf = <<Space>>]
    /\ UNCHANGED <<cfgVars, envVars, life, accVars, connVars, nsock, thrVars, histVars>>

\* The peer closes its end; what it had not sent yet is never sent.
PeerClose(s) ==
    /\ s \in 1..nsock /\ InUse(s)
    /\ sockets[s].peer = "open"
    /\ sockets' = [sockets EXCEPT ![s].peer = "closed", ![s].todo = <<>>,
                                  ![s].owed = 0, ![s].ndeliv = 0]
    /\ UNCHANGED <<cfgVars, envVars, life, accVars, connVars, nsock, thrVars, histVars>>

\* The peer resets the connection.
PeerReset(s) ==
    /\ s \in 1..nsock /\ InUse(s)
    /\ sockets[s].peer = "open"
    /\ sockets' = [sockets EXCEPT ![s] = [Discard(@) EXCEPT !.peer = "reset"]]
    /\ UNCHANGED <<cfgVars, envVars, life, accVars, connVars, nsock, thrVars, histVars>>

\* ------------------------------------------------------------------------
\* The singleton accessor (get_connection, get_rhino_connection,
\* get_grasshopper_connection)
\* ------------------------------------------------------------------------
\* An accessor whose "with _lock:" never waits.
LockIgnored(t) == TRUE

\* "with _lock:" can be entered.
LockAvailable(t) == lock = None

GcAcquire(t) ==
    /\ CanCall(t)
    /\ slot = None => (nconn < MaxConns /\ nsock < MaxSocks)
    /\ LockAvailable(t)
    /\ lock' = t
    /\ pc' = [pc EXCEPT ![t] = "gc_check"]
    /\ nops' = [nops EXCEPT ![t] = @ + 1]
    /\ UNCHANGED <<cfgVars, envVars, life, slot, connVars, sockVars, held, call, outcome,
                   histVars>>

\* An accessor that also rebuilds an instance whose socket handle is none.
GcCheckLiveness(t) ==
    /\ t \in threads /\ pc[t] = "gc_check"
    /\ pc' = [pc EXCEPT ![t] =
              IF slot = None \/ sock[slot] = None THEN "gc_new" ELSE "gc_ret"]
    /\ UNCHANGED <<cfgVars, envVars, life, accVars, connVars, sockVars, held, call, outcome,
                   nops, histVars>>

\* "if _connection is None:"
GcCheck(t) ==
    /\ t \in threads /\ pc[t] = "gc_check"
    /\ pc' = [pc EXCEPT ![t] = IF slot = None THEN "gc_new" ELSE "gc_ret"]
    /\ UNCHANGED <<cfgVars, envVars, life, accVars, connVars, sockVars, held, call, outcome,
                   nops, histVars>>

\* "_connection = connection_class(host=..., port=..., timeout=...)"
GcConstruct(t) ==
    /\ t \in threads /\ pc[t] = "gc_new"
    /\ nconn < MaxConns /\ nsock < MaxSocks
    /\ nconn' = nconn + 1
    /\ conf' = [conf EXCEPT ![nconn + 1] = AccessorConfig(cls)]
    /\ slot' = nconn + 1
    /\ pc' = [pc EXCEPT ![t] = "gc_connect"]
    /\ UNCHANGED <<cfgVars, env, life, lock, sock, inflight, lastOut, sockVars, held,
                   call, outcome, nops, histVars>>

CouldNotConnect ==
    [NoOutcome EXCEPT !.op = "get_connection", !.kind = "raise",
                      !.cat = "CouldNotConnect", !.origin = "get_connection"]
GotConnection ==
    [NoOutcome EXCEPT !.op = "get_connection", !.kind = "return"]

\* A get_connection that keeps the instance in the slot when connect()
\* failed.
GcConnectCaching(t, ok) ==
    /\ t \in threads /\ pc[t] = "gc_connect"
    /\ IF slot = None
       THEN \* the slot was cleared meanwhile: None has no connect()
            /\ lock' = None
            /\ held' = [held EXCEPT ![t] = None]
            /\ outcome' = [outcome EXCEPT ![t] =
                              [CouldNotConnect EXCEPT !.cat = "AttributeError"]]
            /\ pc' = [pc EXCEPT ![t] = "idle"]
            /\ UNCHANGED <<slot, sock, sockVars, refused>>
       ELSE /\ sock[slot] = None => nsock < MaxSocks
            /\ ConnectEffect(slot, ok)
            /\ IF ConnectResult(slot, ok)
               THEN /\ pc' = [pc EXCEPT ![t] = "gc_ret"]
                    /\ UNCHANGED <<slot, lock, held, outcome>>
               ELSE /\ slot' = slot
                    /\ lock' = None
                    /\ held' = [held EXCEPT ![t] = None]
                    /\ outcome' = [outcome EXCEPT ![t] =
                          [CouldNotConnect EXCEPT
                              !.local = CouldNotConnectText(cls)]]
                    /\ pc' = [pc EXCEPT ![t] = "idle"]
    /\ UNCHANGED <<cfgVars, envVars, life, nconn, inflight, lastOut, call, nops, tornDown>>

\* "if not _connection.connect(): _connection = None; raise Exception(...)"
GcConnect(t, ok) ==
    /\ t \in threads /\ pc[t] = "gc_connect"
    /\ IF slot = None
       THEN \* the slot was cleared meanwhile: None has no connect()
            /\ lock' = None
            /\ held' = [held EXCEPT ![t] = None]
            /\ outcome' = [outcome EXCEPT ![t] =
                              [CouldNotConnect EXCEPT !.cat = "AttributeError"]]
            /\ pc' = [pc EXCEPT ![t] = "idle"]
            /\ UNCHANGED <<slot, sock, sockVars, refused>>
       ELSE /\ sock[slot] = None => nsock < MaxSocks
            /\ ConnectEffect(slot, ok)
            /\ IF ConnectResult(slot, ok)
               THEN /\ pc' = [pc EXCEPT ![t] = "gc_ret"]
                    /\ UNCHANGED <<slot, lock, held, outcome>>
               ELSE /\ slot' = None
                    /\ lock' = None
                    /\ held' = [held EXCEPT ![t] = None]
                    /\ outcome' = [outcome EXCEPT ![t] =
                          [CouldNotConnect EXCEPT
                              !.local = CouldNotConnectText(cls)]]
                    /\ pc' = [pc EXCEPT ![t] = "idle"]
    /\ UNCHANGED <<cfgVars, envVars, life, nconn, inflight, lastOut, call, nops, tornDown>>

\* "return _connection", leaving the with block
GcReturn(t) ==
    /\ t \in threads /\ pc[t] = "gc_ret"
    /\ held' = [held EXCEPT ![t] = slot]
    /\ outcome' = [outcome EXCEPT ![t] = GotConnection]
    /\ lock' = None
    /\ pc' = [pc EXCEPT ![t] = "idle"]
    /\ UNCHANGED <<cfgVars, envVars, life, slot, connVars, sockVars, call, nops, histVars>>

\* ------------------------------------------------------------------------
\* Teardown of the singleton
\* ------------------------------------------------------------------------
\* cleanup_connection of create_connection_manager: "with _lock:"
ClAcquire(t) ==
    /\ CanCall(t) /\ cls = "PluginConnection"
    /\ LockAvailable(t)
    /\ lock' = t
    /\ tornDown' = TRUE
    /\ pc' = [pc EXCEPT ![t] = "cl_body"]
    /\ nops' = [nops EXCEPT ![t] = @ + 1]
    /\ UNCHANGED <<cfgVars, envVars, life, slot, connVars, sockVars, held, call, outcome,
                   refused>>

\* "if _connection: _connection.disconnect(); _connection = None"
ClBody(t) ==
    /\ t \in threads /\ pc[t] = "cl_body"
    /\ IF slot # None
       THEN (\E thr \in BOOLEAN : DisconnectEffect(slot, thr))
            /\ slot' = None
       ELSE UNCHANGED <<slot, sock, sockets, lastOut>>
    /\ lock' = None
    /\ pc' = [pc EXCEPT ![t] = "idle"]
    /\ UNCHANGED <<cfgVars, envVars, life, nconn, inflight, nsock, held, call, outcome, nops,
                   histVars>>

\* The finally block of the Rhino and Grasshopper server_lifespan:
\* "if _rhino_connection:" (no lock is taken)
TdCheck(t) ==
    /\ CanCall(t) /\ cls # "PluginConnection"
    /\ tornDown' = TRUE
    /\ pc' = [pc EXCEPT ![t] = IF slot # None THEN "td_disc" ELSE "idle"]
    /\ nops' = [nops EXCEPT ![t] = @ + 1]
    /\ UNCHANGED <<cfgVars, envVars, life, accVars, connVars, sockVars, held, call, outcome,
                   refused>>

\* "_rhino_connection.disconnect()"
TdDisconnect(t) ==
    /\ t \in threads /\ pc[t] = "td_disc"
    /\ IF slot # None
       THEN /\ \E thr \in BOOLEAN : DisconnectEffect(slot, thr)
            /\ pc' = [pc EXCEPT ![t] = "td_clear"]
       ELSE UNCHANGED <<sock, sockets, lastOut>>
            /\ pc' = [pc EXCEPT ![t] = "idle"]
    /\ UNCHANGED <<cfgVars, envVars, life, accVars, nconn, inflight, nsock, held, call,
                   outcome, nops, histVars>>

\* "_rhino_connection = None"
TdClear(t) ==
    /\ t \in threads /\ pc[t] = "td_clear"
    /\ slot' = None
    /\ pc' = [pc EXCEPT ![t] = "idle"]
    /\ UNCHANGED <<cfgVars, envVars, life, lock, connVars, sockVars, held, call, outcome,
                   nops, histVars>>

\* ------------------------------------------------------------------------
\* The server lifespan (create_lifespan.lifespan, server_lifespan): thread 1
\* runs it, thread 2 runs the tools of the server body
\* ------------------------------------------------------------------------
LifeThread == 1
ToolThread == 2

\* The lifespan is entered: "... server starting up".
LsEnter ==
    /\ life.phase = "none"
    /\ life' = [life EXCEPT !.phase = "starting"]
    /\ UNCHANGED <<cfgVars, envVars, accVars, connVars, sockVars, thrVars,
                   histVars>>

\* "try: get_connection()" of the startup.
LsStartup ==
    /\ life.phase = "starting" /\ nops[LifeThread] = 0
    /\ GcAcquire(LifeThread)

\* The startup's get_connection has returned or raised; "except Exception"
\* logs a warning, and "yield {}" hands the context to the server.
LsYield ==
    /\ life.phase = "starting"
    /\ pc[LifeThread] = "idle" /\ outcome[LifeThread].op = "get_connection"
    /\ life' = [life EXCEPT !.phase = "serving",
                            !.connected = (outcome[LifeThread].kind = "return")]
    /\ UNCHANGED <<cfgVars, envVars, accVars, connVars, sockVars, thrVars,
                   histVars>>

\* A tool of the running server calls the accessor.
ToolGetConnection ==
    /\ life.phase = "serving"
    /\ GcAcquire(ToolThread)

\* A tool of the running server calls send_command on the instance it got.
ToolSendCommand(ok) ==
    /\ life.phase = "serving"
    /\ ScBegin(ToolThread, ok)

\* The server body ends, normally or (exc) with an exception thrown into the
\* generator at the yield: the finally block is entered.
LsBodyEnds(exc) ==
    /\ life.phase = "serving"
    /\ life' = [life EXCEPT !.phase = "stopping", !.bodyRaised = exc]
    /\ UNCHANGED <<cfgVars, envVars, accVars, connVars, sockVars, thrVars,
                   histVars>>

\* The finally block: cleanup_connection(), or the unlocked block of the
\* Rhino and Grasshopper servers.
LsTeardown ==
    /\ life.phase = "stopping" /\ ~tornDown
    /\ ClAcquire(LifeThread) \/ TdCheck(LifeThread)

\* The finally block is left: "... server shut down".
LsExit ==
    /\ life.phase = "stopping" /\ tornDown /\ pc[LifeThread] = "idle"
    /\ life' = [life EXCEPT !.phase = "stopped"]
    /\ UNCHANGED <<cfgVars, envVars, accVars, connVars, sockVars, thrVars,
                   histVars>>

\* ------------------------------------------------------------------------
\* The Grasshopper tools that test their arguments before they connect
\* ------------------------------------------------------------------------
\* The values of an optional string argument: None, "" and an identifier.
ArgNone == "<None>"
ArgValues == {ArgNone, "", "a1b2"}

\* "not x" of an argument.
PyNot(x) == x \in {ArgNone, ""}

\* The tools that look for a component by instance_id or nickname.
IdentifierTools ==
    {"delete_component", "get_component_info", "set_parameter_value",
     "get_parameter_value", "bake_component"}

GhTools ==
    {"add_component", "connect_components", "get_canvas_state"}
        \cup IdentifierTools

\* The arguments of a tool that its tests look at.
ArgsOf(tool) ==
    CASE tool = "add_component" -> [component_name : ArgValues]
      [] tool \in IdentifierTools ->
           [instance_id : ArgValues, nickname : ArgValues]
      [] tool = "connect_components" ->
           [source_instance_id : ArgValues, source_nickname : ArgValues,
            target_instance_id : ArgValues, target_nickname : ArgValues]
      [] OTHER -> {[none |-> ArgNone]}

\* The tests passed.
Pass == ""

\* A connect_components that tests its source only.
ValidateSourceOnly(tool, a) ==
    CASE tool = "add_component" ->
           IF PyNot(a.component_name) THEN "component_name is required"
           ELSE Pass
      [] tool \in IdentifierTools ->
           IF PyNot(a.instance_id) /\ PyNot(a.nickname)
           THEN "Either instance_id or nickname is required" ELSE Pass
      [] tool = "connect_components" ->
           IF PyNot(a.source_instance_id) /\ PyNot(a.source_nickname)
           THEN "Either source_instance_id or source_nickname is required"
           ELSE Pass
      [] OTHER -> Pass

\* The tests at the head of a tool's try block: the message of the mapping
\* the tool returns, or Pass.
Validate(tool, a) ==
    CASE tool = "add_component" ->
           IF PyNot(a.component_name) THEN "component_name is required"
           ELSE Pass
      [] tool \in IdentifierTools ->
           IF PyNot(a.instance_id) /\ PyNot(a.nickname)
           THEN "Either instance_id or nickname is required" ELSE Pass
      [] tool = "connect_components" ->
           IF PyNot(a.source_instance_id) /\ PyNot(a.source_nickname)
           THEN "Either source_instance_id or source_nickname is required"
           ELSE IF PyNot(a.target_instance_id) /\ PyNot(a.target_nickname)
           THEN "Either target_instance_id or target_nickname is required"
           ELSE Pass
      [] OTHER -> Pass

\* return {"success": False, "message": msg} of a test that failed.
ToolRefusal(tool, msg) ==
    [NoOutcome EXCEPT !.op = tool, !.kind = "return", !.origin = "validation",
                      !.ret = FALSE, !.local = msg]

\* A tool is called with arguments a: it returns the mapping of a failed
\* test, or goes on to get_grasshopper_connection() (and from there to
\* send_command).
GhTool(t, tool, a) ==
    /\ CanCall(t) /\ cls = "GrasshopperConnection"
    /\ tool \in GhTools /\ a \in ArgsOf(tool)
    /\ IF Validate(tool, a) # Pass
       THEN /\ outcome' = [outcome EXCEPT
                              ![t] = ToolRefusal(tool, Validate(tool, a))]
            /\ nops' = [nops EXCEPT ![t] = @ + 1]
            /\ UNCHANGED <<cfgVars, envVars, life, accVars, connVars,
                           sockVars, pc, held, call, histVars>>
       ELSE GcAcquire(t)

\* Code of the process changes the environment (os.environ[...] = ...).
SetEnv(e) ==
    /\ e \in Environments /\ e # env
    /\ env' = e
    /\ UNCHANGED <<cfgVars, conf, life, accVars, connVars, sockVars, thrVars,
                   histVars>>

\* ------------------------------------------------------------------------
\* Specifications
\* ------------------------------------------------------------------------
Next ==
    \/ \E t \in AllThreads : NewConnection(t)
    \/ \E t \in AllThreads, ok \in BOOLEAN : Connect(t, ok)
    \/ \E t \in AllThreads, thr \in BOOLEAN : Disconnect(t, thr)
    \/ \E t \in AllThreads, ok \in BOOLEAN : ScBegin(t, ok)
    \/ \E t \in AllThreads : ScSend(t)
    \/ \E t \in AllThreads : ScReceiveStart(t)
    \/ \E t \in AllThreads : ScRecv(t)
    \/ \E t \in AllThreads : ScRecvTimeout(t)
    \/ \E s \in Socks, d \in AllDocs : PeerReply(s, d)
    \/ \E s \in Socks, n \in 1..40 : PeerDeliver(s, n)
    \/ \E s \in Socks : PeerClose(s)
    \/ \E s \in Socks : PeerReset(s)
    \/ \E t \in AllThreads : GcAcquire(t)
    \/ \E t \in AllThreads : GcCheck(t)
    \/ \E t \in AllThreads : GcConstruct(t)
    \/ \E t \in AllThreads, ok \in BOOLEAN : GcConnect(t, ok)
    \/ \E t \in AllThreads : GcReturn(t)
    \/ \E t \in AllThreads : ClAcquire(t)
    \/ \E t \in AllThreads : ClBody(t)
    \/ \E t \in AllThreads : TdCheck(t)
    \/ \E t \in AllThreads : TdDisconnect(t)
    \/ \E t \in AllThreads : TdClear(t)

Spec == Init /\ [][Next]_vars

\* The receive loop and the peer.
NextReceive ==
    \/ \E t \in AllThreads : ScRecv(t)
    \/ \E t \in AllThreads : ScRecvTimeout(t)
    \/ \E s \in Socks, d \in AllDocs : PeerReply(s, d)
    \/ \E s \in Socks, n \in 1..40 : PeerDeliver(s, n)
    \/ \E s \in Socks : PeerClose(s)
    \/ \E s \in Socks : PeerReset(s)

SpecReceive == InitReceive /\ [][NextReceive]_vars

\* The receive loop with a peer that may pad for ever. A recv that is
\* blocked returns when bytes are there and raises socket.timeout when
\* none arrive in time.
NextLive ==
    \/ NextReceive
    \/ \E s \in Socks : PeerPad(s)

SpecLive ==
    /\ InitLive /\ [][NextLive]_vars
    /\ WF_vars(\E t \in AllThreads : ScRecv(t))
    /\ WF_vars(\E t \in AllThreads : ScRecvTimeout(t))

\* The callers of the singleton: the accessor, the teardown, send_command.
\* The plugin answers a command or stays silent; the faults of the
\* transport are those of a refused connect and of a receive timeout.
NextShared ==
    \/ \E t \in AllThreads, ok \in BOOLEAN : ScBegin(t, ok)
    \/ \E t \in AllThreads : ScSend(t)
    \/ \E t \in AllThreads : ScReceiveStart(t)
    \/ \E t \in AllThreads : ScRecv(t)
    \/ \E t \in AllThreads : ScRecvTimeout(t)
    \/ \E s \in Socks, d \in AllDocs : PeerReply(s, d)
    \/ \E s \in Socks, n \in 1..40 : PeerDeliver(s, n)
    \/ \E t \in AllThreads : GcAcquire(t)
    \/ \E t \in AllThreads : GcCheck(t)
    \/ \E t \in AllThreads : GcConstruct(t)
    \/ \E t \in AllThreads, ok \in BOOLEAN : GcConnect(t, ok)
    \/ \E t \in AllThreads : GcReturn(t)
    \/ \E t \in AllThreads : ClAcquire(t)
    \/ \E t \in AllThreads : ClBody(t)
    \/ \E t \in AllThreads : TdCheck(t)
    \/ \E t \in AllThreads : TdDisconnect(t)
    \/ \E t \in AllThreads : TdClear(t)

SpecShared == InitShared /\ [][NextShared]_vars

\* One thread uses the singleton accessor, its cleanup and teardown while
\* the environment of the process may change.
InitEnv ==
    /\ InitCommon /\ argSet = {ParamsNone}
    /\ threads = {1} /\ docs = SharedDocs /\ chunkLimit = 1
    /\ opLimit = MaxOps /\ padCap = 0

NextEnv ==
    \/ NextShared
    \/ \E e \in Environments : SetEnv(e)

SpecEnv == InitEnv /\ [][NextEnv]_vars

\* One caller that passes any of the params arguments.
InitCommand ==
    /\ InitCommon
    /\ threads = {1} /\ docs = SharedDocs /\ chunkLimit = 1
    /\ opLimit = MaxOps /\ argSet = AllParams /\ padCap = 0

SpecCommand == InitCommand /\ [][Next]_vars

\* One caller that makes several calls in a row; the peer answers with a
\* document or with a document and a newline, in up to MaxChunks pieces.
InitSequence ==
    /\ InitCommon /\ argSet = {ParamsNone}
    /\ threads = {1} /\ docs = SequenceDocs /\ chunkLimit = MaxChunks
    /\ opLimit = MaxOps /\ padCap = 0

SpecSequence == InitSequence /\ [][Next]_vars

\* The Grasshopper server: one thread runs tools, which test their
\* arguments, get the connection and send their command.
InitTools ==
    /\ InitCommon /\ cls = "GrasshopperConnection"
    /\ argSet = {ParamsOne}
    /\ threads = {1} /\ docs = SharedDocs /\ chunkLimit = 1
    /\ opLimit = MaxOps /\ padCap = 0

NextTools ==
    \/ \E t \in AllThreads, tool \in GhTools :
          \E a \in ArgsOf(tool) : GhTool(t, tool, a)
    \/ \E t \in AllThreads : GcCheck(t)
    \/ \E t \in AllThreads : GcConstruct(t)
    \/ \E t \in AllThreads, ok \in BOOLEAN : GcConnect(t, ok)
    \/ \E t \in AllThreads : GcReturn(t)
    \/ \E t \in AllThreads, ok \in BOOLEAN : ScBegin(t, ok)
    \/ \E t \in AllThreads : ScSend(t)
    \/ \E t \in AllThreads : ScReceiveStart(t)
    \/ \E t \in AllThreads : ScRecv(t)
    \/ \E t \in AllThreads : ScRecvTimeout(t)
    \/ \E s \in Socks, d \in AllDocs : PeerReply(s, d)
    \/ \E s \in Socks, n \in 1..40 : PeerDeliver(s, n)
    \/ \E s \in Socks : PeerClose(s)

SpecTools == InitTools /\ [][NextTools]_vars

\* A server: the lifespan in one thread, the tools of its body in another.
InitLifespan ==
    /\ InitCommon /\ argSet = {ParamsNone}
    /\ threads = {LifeThread, ToolThread} /\ docs = SharedDocs
    /\ chunkLimit = 1 /\ opLimit = MaxOps - 1 /\ padCap = 0

NextLifespan ==
    \/ LsEnter
    \/ LsStartup
    \/ LsYield
    \/ ToolGetConnection
    \/ \E ok \in BOOLEAN : ToolSendCommand(ok)
    \/ \E exc \in BOOLEAN : LsBodyEnds(exc)
    \/ LsTeardown
    \/ LsExit
    \/ \E t \in AllThreads : GcCheck(t)
    \/ \E t \in AllThreads : GcConstruct(t)
    \/ \E t \in AllThreads, ok \in BOOLEAN : GcConnect(t, ok)
    \/ \E t \in AllThreads : GcReturn(t)
    \/ \E t \in AllThreads : ScSend(t)
    \/ \E t \in AllThreads : ScReceiveStart(t)
    \/ \E t \in AllThreads : ScRecv(t)
    \/ \E t \in AllThreads : ScRecvTimeout(t)
    \/ \E s \in Socks, d \in AllDocs : PeerReply(s, d)
    \/ \E s \in Socks, n \in 1..40 : PeerDeliver(s, n)
    \/ \E t \in AllThreads : ClBody(t)
    \/ \E t \in AllThreads : TdDisconnect(t)
    \/ \E t \in AllThreads : TdClear(t)

SpecLifespan == InitLifespan /\ [][NextLifespan]_vars

\* ---------------------------------------------------------------------------
\* Properties of send_command
\* ---------------------------------------------------------------------------

\* A send_command call of thread t leaves its try block in this step.
Completes(t) == pc[t] \in {"send", "rx", "recv"} /\ pc'[t] = "idle"

\* The call ended by the plugin's reply {"status": "error", ...}.
RemoteErrorRaised(o) == o.kind = "raise" /\ o.origin = "status-error"

\* The call ended by a fault of the transport, not of the plugin's command.
LocalFaultRaised(o) == o.kind = "raise" /\ o.origin # "status-error"

\* C1: when the plugin replies with status "error", send_command raises
\* and the connection keeps the same non-null socket handle.
C1_RemoteErrorKeepsSocket ==
    [][\A t \in AllThreads :
         (Completes(t) /\ RemoteErrorRaised(outcome'[t]))
            => /\ sock[held[t]] # None
               /\ sock'[held[t]] = sock[held[t]]]_vars

\* C2: the failure raised for a remote error response carries the
\* plugin's message with no prefix, or the fallback text with no prefix
\* when the response has no message.
C2_RemoteMessageUnmodified ==
    \A t \in AllThreads :
        RemoteErrorRaised(outcome[t])
            => /\ outcome[t].prefix = ""
               /\ outcome[t].remote \/ outcome[t].local = UnknownErrorText(cls)

\* C3: a receive that timed out before a complete response arrived makes
\* send_command fail in the Timeout category.
C3_ReceiveTimeoutIsTimeout ==
    \A t \in AllThreads :
        (/\ outcome[t].op = "send_command"
         /\ outcome[t].timedOut
         /\ outcome[t].origin \in {"no-data", "final-decode"})
            => outcome[t].cat = "Timeout"

\* C4: after send_command fails with a local fault (not connected,
\* timeout, connection lost, malformed response) the socket handle of
\* the connection is none.
C4_LocalFaultDisconnects ==
    [][\A t \in AllThreads :
         (Completes(t) /\ LocalFaultRaised(outcome'[t]))
            => sock'[held[t]] = None]_vars

\* C5: the send_command that directly follows a send_command failed by a
\* transport fault, with no other call on the instance in between,
\* calls connect() before it sends.
C5_NextCallReconnects ==
    \A t \in AllThreads :
        (pc[t] = "send" /\ LocalFaultRaised(call[t].prev))
            => call[t].didConnect

\* The outcomes a and b are the same return value or the same failure.
SameOutcome(a, b) == [a EXCEPT !.chunks = 0] = [b EXCEPT !.chunks = 0]

\* What send_command does when the bytes bs arrive in a single recv that
\* completes the response.
SingleRecvOutcome(bs) ==
    [SendCommandOutcome(cls, ReceiveChunk(cls, <<>>, bs).res)
        EXCEPT !.chunks = 1]

\* The bytes bs are one valid JSON document that a single recv completes.
CompleteDocument(bs) ==
    /\ Utf8Decode(bs).ok
    /\ JsonLoads(Utf8Decode(bs).s).ok
    /\ ReceiveChunk(cls, <<>>, bs).done

\* C6: a response that is one valid JSON document gives the same outcome
\* whether its bytes arrive in one recv or split over several.
C6_ChunkingTransparent ==
    [][\A t \in AllThreads :
         LET so == sockets[call[t].sock]
             total == call[t].raw \o so.inbuf \o so.todo
         IN  (/\ pc[t] = "recv" /\ pc'[t] = "idle"
              /\ so.peer = "open" /\ ~so.closed
              /\ ~outcome'[t].timedOut
              /\ outcome'[t].chunks + (IF so.todo = <<>> THEN 0 ELSE 1) > 1
              /\ CompleteDocument(total))
                => SameOutcome(outcome'[t], SingleRecvOutcome(total))]_vars

\* The bytes bs parse as {"status": "success", "result": R}.
SuccessEnvelope(bs) ==
    /\ Utf8Decode(bs).ok
    /\ LET r == JsonLoads(Utf8Decode(bs).s)
       IN  /\ r.ok
           /\ r.val.t = "obj"
           /\ DictGet(r.val, KeyStatus, JNull) = JStr(TextSuccess)
           /\ HasKey(r.val, KeyResult)

\* The R of a success envelope.
EnvelopeResult(bs) ==
    DictGet(JsonLoads(Utf8Decode(bs).s).val, KeyResult, JNull)

\* C7: when the response bytes arrive in one recv and parse as
\* {"status": "success", "result": R}, send_command returns R.
C7_SuccessReturnsResult ==
    [][\A t \in AllThreads :
         LET bs == call[t].raw \o sockets[call[t].sock].inbuf
         IN  (/\ pc[t] = "recv" /\ pc'[t] = "idle"
              /\ outcome'[t].chunks = 1
              /\ SuccessEnvelope(bs))
                => /\ outcome'[t].kind = "return"
                   /\ outcome'[t].val = EnvelopeResult(bs)]_vars

\* ---------------------------------------------------------------------------
\* Properties of the singleton
\* ---------------------------------------------------------------------------

\* C8: while the plugin is reachable and nothing tears the singleton
\* down, the accessor constructs one connection object and hands that
\* same instance to every thread.
C8_OneInstanceConstructed ==
    (~tornDown /\ ~refused)
        => /\ nconn <= 1
           /\ \A t \in threads : held[t] \in {None, slot}
           /\ \A t, u \in threads :
                (held[t] # None /\ held[u] # None) => held[t] = held[u]

\* Both threads called the accessor and hold the one instance.
C8_Witness ==
    /\ ~tornDown /\ ~refused
    /\ nconn = 1
    /\ held[1] = 1 /\ held[2] = 1

\* C9: callers never hold two different instances that are both live.
C9_NoTwoLiveInstances ==
    \A t, u \in threads :
        (held[t] # None /\ held[u] # None /\ held[t] # held[u])
            => ~(sock[held[t]] # None /\ sock[held[u]] # None)

\* The threads that are inside send_command on the instance c.
Inside(c) == {t \in threads : held[t] = c /\ pc[t] \in {"send", "rx", "recv"}}

\* C10 as stated: at most one command is in flight on an instance, for
\* every caller of the shared singleton.
C10_SingleFlightAlways ==
    \A c \in Conns : inflight[c] <= 1

\* C10: the commands in flight on an instance never outnumber the threads
\* that are inside send_command on it, so at most one command is in
\* flight as long as callers do not call send_command concurrently on
\* the same instance.
C10_SingleFlightPerCaller ==
    \A c \in Conns : inflight[c] <= Cardinality(Inside(c))

\* One thread has its command in flight on the shared instance while the
\* other thread holds the same instance and is outside send_command.
C10_Witness ==
    /\ held[1] # None /\ held[2] = held[1]
    /\ inflight[held[1]] = 1
    /\ Cardinality(Inside(held[1])) = 1

\* ---------------------------------------------------------------------------
\* Properties of connect(), disconnect() and of the error texts
\* ---------------------------------------------------------------------------

\* Thread t made a call on its instance in this step and the connect() of
\* that call found nothing listening.
RefusedCall(t) ==
    /\ nops'[t] # nops[t]
    /\ nsock' = nsock + 1
    /\ sockets'[nsock'].peer = "refused"

\* The message tells the user that the plugin must be running.
Guidance(text) ==
    \E i \in DOMAIN Words(text) : Words(text)[i] \in {"running", "running."}

\* C11: when nothing is listening, connect() returns False and leaves the
\* handle none; send_command sends nothing, leaves the handle none and
\* raises a NotConnected error whose text says that the plugin must be
\* running.
C11_NothingListening ==
    [][\A t \in AllThreads :
         /\ (RefusedCall(t) /\ outcome'[t].op = "connect")
               => /\ ~outcome'[t].ret
                  /\ sock'[held[t]] = None
         /\ (RefusedCall(t) /\ pc[t] = "idle" /\ call'[t] # call[t])
               => /\ outcome'[t].kind = "raise"
                  /\ outcome'[t].cat = "NotConnected"
                  /\ pc'[t] = "idle"
                  /\ sock'[held[t]] = None
                  /\ inflight' = inflight
                  /\ Guidance(outcome'[t].local)]_vars

\* ---------------------------------------------------------------------------
\* The tool wrappers
\* ---------------------------------------------------------------------------

\* Tools of the two bridge servers, and the command_tool pattern of the
\* shared package, one for each kind of except clause in the repository.
ToolsOf(k) ==
    CASE k = "PluginConnection" -> {"command_tool"}
      [] k = "RhinoConnection" ->
           {"loft", "execute_rhinocommon_csharp_code", "undo",
            "get_document_summary", "capture_viewport"}
      [] OTHER -> {"add_component", "get_canvas_state"}

\* What the tool hands to the framework when get_connection or
\* send_command raised the exception of outcome o: the except clause of
\* the tool, with the text it puts before str(e).
ToolOnError(tool, o) ==
    CASE tool = "capture_viewport" ->
           [kind |-> "raise", shape |-> "exception", success |-> FALSE,
            prefix |-> "Error capturing viewport: ", e |-> o]
      [] tool = "undo" ->
           [kind |-> "return", shape |-> "string", success |-> FALSE,
            prefix |-> "Error undoing: ", e |-> o]
      [] tool = "get_document_summary" ->
           [kind |-> "return", shape |-> "string", success |-> FALSE,
            prefix |-> "Error getting document summary: ", e |-> o]
      [] tool = "command_tool" ->
           [kind |-> "return", shape |-> "mapping", success |-> FALSE,
            prefix |-> "Error: ", e |-> o]
      [] OTHER ->
           [kind |-> "return", shape |-> "mapping", success |-> FALSE,
            prefix |-> "", e |-> o]

\* get_connection or send_command raised to thread t.
Raised(t) ==
    /\ outcome[t].kind = "raise"
    /\ outcome[t].op \in {"get_connection", "send_command"}

\* C12: every tool wrapper turns every exception of get_connection and
\* send_command into the mapping {success: false, message: <string>} and
\* propagates none.
C12_ToolsReturnMapping ==
    \A t \in threads : \A tool \in ToolsOf(cls) :
        Raised(t) =>
            /\ ToolOnError(tool, outcome[t]).kind = "return"
            /\ ToolOnError(tool, outcome[t]).shape = "mapping"
            /\ ~ToolOnError(tool, outcome[t]).success

\* C13: disconnect() never raises and always ends with the socket handle
\* none: with no socket, called twice in a row, and when close() raises.
C13_DisconnectAlwaysClears ==
    [][\A t \in AllThreads : \A thr \in BOOLEAN :
         Disconnect(t, thr)
            => /\ outcome'[t].op = "disconnect"
               /\ outcome'[t].kind = "return"
               /\ sock'[held[t]] = None]_vars

\* A disconnect() whose close() raised has returned, and the handle is none.
C13_Witness ==
    /\ outcome[1].op = "disconnect"
    /\ outcome[1].closeErr
    /\ held[1] # None /\ sock[held[1]] = None

\* ---------------------------------------------------------------------------
\* Properties of the receive loop
\* ---------------------------------------------------------------------------

\* The receive loop of thread t ends in this step because the peer closed
\* the connection or stayed silent until the timeout.
RecvEnds(t) ==
    /\ pc[t] = "recv" /\ pc'[t] = "idle"
    /\ ~sockets[call[t].sock].closed
    /\ sockets[call[t].sock].peer \in {"open", "closed"}
    /\ sockets[call[t].sock].inbuf = <<>>

\* The message of the error for received bytes that are no complete JSON.
IncompleteText == FinalDecode(cls, Utf8Decode(RespPartial).s).local

\* C14: when the peer closes, or the receive times out, before any byte
\* arrived, send_command fails with an error that is not the error of
\* received bytes that do not form complete JSON.
C14_EmptyResponseDistinct ==
    [][\A t \in AllThreads :
         /\ (RecvEnds(t) /\ call[t].raw = <<>>)
               => /\ outcome'[t].kind = "raise"
                  /\ outcome'[t].local # IncompleteText
                  /\ outcome'[t].cat # "InvalidResponse"
         /\ (RecvEnds(t) /\ call[t].raw # <<>>
                /\ Utf8Decode(call[t].raw).ok
                /\ ~RawDecode(Utf8Decode(call[t].raw).s).ok)
               => /\ outcome'[t].kind = "raise"
                  /\ outcome'[t].local = IncompleteText]_vars

\* The peer closed the connection before it sent a byte, and send_command
\* has raised.
C14_Witness ==
    /\ outcome[1].op = "send_command" /\ outcome[1].kind = "raise"
    /\ outcome[1].chunks = 0 /\ ~outcome[1].timedOut
    /\ outcome[1].origin = "closed-empty"

\* ---------------------------------------------------------------------------
\* Properties of the accessor and of the teardown
\* ---------------------------------------------------------------------------

\* C15: when get_connection constructed an instance and its connect()
\* fails, it raises the "could not connect" error with the slot empty and
\* the lock released, and a get_connection that finds the slot empty
\* constructs a new instance.
C15_FailedGetLeavesSlotEmpty ==
    [][\A t \in AllThreads :
         /\ (GcConnect(t, FALSE) /\ slot # None /\ sock[slot] = None)
               => /\ outcome'[t].kind = "raise"
                  /\ outcome'[t].cat = "CouldNotConnect"
                  /\ Guidance(outcome'[t].local)
                  /\ slot' = None
                  /\ lock' = None
                  /\ pc'[t] = "idle"
         /\ (GcCheck(t) /\ slot = None) => pc'[t] = "gc_new"
         /\ GcConstruct(t) => (slot' = nconn + 1 /\ pc'[t] = "gc_connect")]_vars

\* After a get_connection that could not connect, a later get_connection
\* of thread 1 returned a second instance.
C15_Witness ==
    /\ refused /\ ~tornDown
    /\ nconn = 2 /\ slot = 2 /\ held[1] = 2
    /\ sock[2] # None

InAccessor(t) == pc[t] \in {"gc_check", "gc_new", "gc_connect", "gc_ret"}

\* Thread t is inside a teardown of the singleton: the body of
\* cleanup_connection or the finally block of a server_lifespan.
InTeardown(t) == pc[t] \in {"cl_body", "td_disc", "td_clear"}

\* C17: every teardown of the singleton runs under the lock of the
\* accessor: no thread is inside a teardown while another thread is
\* inside the construct-or-return section.
C17_TeardownUnderLock ==
    \A t, u \in threads :
        (t # u /\ InTeardown(t)) => (~InAccessor(u) /\ lock = t)

\* C18: every send_command call eventually completes, whatever the peer
\* does after the request is sent.
C18_SendCommandCompletes ==
    (pc[1] = "recv") ~> (pc[1] = "idle")

\* C19: connect() on an instance whose socket handle is present returns True
\* and changes nothing: no socket is created, no connect is attempted (none
\* is refused), the handle stays the same object and that socket is left as
\* it was, also when its peer has closed or reset it.
C19_ConnectPresentIsNoOp ==
    [][\A t \in AllThreads, ok \in BOOLEAN :
          (Connect(t, ok) /\ sock[held[t]] # None) =>
              /\ outcome'[t].op = "connect" /\ outcome'[t].kind = "return"
              /\ outcome'[t].ret
              /\ sock' = sock /\ nsock' = nsock /\ sockets' = sockets
              /\ refused' = refused]_vars

\* connect() has returned through its first return on a handle whose peer
\* had gone, and the handle is still that socket.
C19_Witness ==
    /\ outcome[1].op = "connect" /\ outcome[1].origin = "stale-handle"
    /\ outcome[1].ret
    /\ held[1] # None /\ sock[held[1]] # None
    /\ sockets[sock[held[1]]].peer \in {"closed", "reset"}
    /\ nsock = 1

\* C20: host, port and timeout are read once per process: every instance a
\* singleton accessor has constructed (the first, one built after a failed
\* get_connection, one built after cleanup) uses the same host, port and
\* timeout, whatever has been changed in the environment since.
C20_ConfigReadOnce ==
    \A c \in 1..nconn, d \in 1..nconn : conf[c] = conf[d]

\* The finally block of the lifespan ends in this step.
TeardownEnds ==
    \/ ClBody(LifeThread)
    \/ TdClear(LifeThread)
    \/ TdDisconnect(LifeThread) /\ pc'[LifeThread] = "idle"
    \/ TdCheck(LifeThread) /\ pc'[LifeThread] = "idle"

\* C21: a failed get_connection at startup does not keep the server from
\* starting (the lifespan goes on to yield the context), and the finally
\* block always tears the singleton down, whether the startup connected and
\* whether the body raised: when it ends the slot is empty and the instance
\* that was in the slot is disconnected.
C21_LifespanTearsDown ==
    [][/\ (life.phase = "starting" /\ life'.phase # "starting")
           => life'.phase = "serving"
       /\ (life.phase = "serving" /\ life'.phase # "serving")
           => life'.phase = "stopping"
       /\ TeardownEnds
           => /\ slot' = None
              /\ slot # None => sock'[slot] = None]_vars

\* The outcomes o and p are the same but for the counters of the receive
\* loop.
SameButCounters(o, p) ==
    [o EXCEPT !.chunks = 0, !.timedOut = FALSE] =
    [p EXCEPT !.chunks = 0, !.timedOut = FALSE]

\* C22: when the receive loop ends with a non-empty buffer, because the peer
\* closed or because a recv timed out, the buffer is decoded once more: if
\* it starts with a complete JSON document its bytes are the response
\* send_command goes on with (no timeout is reported), otherwise the
\* "Incomplete JSON response received" error is raised, which is not the
\* error of an empty response.
C22_FinalDecode ==
    [][\A t \in AllThreads :
         (RecvEnds(t) /\ call[t].accumulated # <<>>) =>
            IF RawDecode(call[t].accumulated).ok
            THEN /\ SameButCounters(outcome'[t],
                        SendCommandOutcome(cls,
                            ParseResponse(cls, Utf8Encode(call[t].accumulated))))
                 /\ outcome'[t].cat # "Timeout"
                 /\ outcome'[t].origin \notin {"final-decode", "no-data",
                                               "closed-empty"}
            ELSE /\ outcome'[t].kind = "raise"
                 /\ outcome'[t].origin = "final-decode"
                 /\ outcome'[t].local = "Incomplete JSON response received"
                 /\ outcome'[t].local \notin
                       {"No data received",
                        "Connection closed before receiving any data"}]_vars

\* A recv timed out after the document "x" had arrived: the final decode
\* accepted it and send_command went on with those bytes.
C22_Witness ==
    /\ outcome[1].op = "send_command" /\ outcome[1].timedOut
    /\ outcome[1].chunks > 0
    /\ outcome[1].origin = "response.get"

\* ---------------------------------------------------------------------------
\* Properties of the command written
\* ---------------------------------------------------------------------------

\* The document a peer reads from the bytes bs: one JSON document and
\* nothing else.
DocumentRead(bs) == JsonLoads(Utf8Decode(bs).s)

\* C23: a send_command call that reaches the socket writes, in one sendall
\* and once, the JSON document {"type": command_type, "params": P} and
\* nothing else, where P is the params argument, or {} when that is None or
\* empty; no recv of the call comes before the write.
C23_OneCommandWritten ==
    [][\A t \in AllThreads :
         /\ (ScSend(t) /\ pc'[t] = "rx") =>
                /\ ~call[t].wrote /\ call[t].sent = <<>>
                /\ inflight'[held[t]] = inflight[held[t]] + 1
                /\ DocumentRead(call'[t].sent).ok
                /\ DocumentRead(call'[t].sent).val =
                      JObj({<<KeyType, JStr(CommandType)>>,
                            <<KeyParams,
                              IF call[t].params \in {ParamsNone, ParamsEmpty}
                              THEN EmptyDict ELSE call[t].params>>})
         /\ (call'[t].sent # call[t].sent /\ pc'[t] # "idle")
                => (pc[t] = "send" /\ pc'[t] = "rx")
         /\ pc'[t] = "recv" => (call'[t].wrote /\ call'[t].sent # <<>>)
         /\ call'[t].nrecv > 0 => call'[t].wrote]_vars

\* A call with params None has written its command and is receiving.
C23_Witness ==
    /\ pc[1] = "recv" /\ call[1].params = ParamsNone
    /\ call[1].sent = CommandJson(CommandType, ParamsEmpty)
    /\ inflight[held[1]] = 1

\* ---------------------------------------------------------------------------
\* No retry in the transport layer
\* ---------------------------------------------------------------------------

\* Thread t is inside the try block of a send_command.
InCall(t) == pc[t] \in {"send", "rx", "recv"}

\* A step of the send_command of thread t after its connect.
CallStep(t) ==
    ScSend(t) \/ ScReceiveStart(t) \/ ScRecv(t) \/ ScRecvTimeout(t)

\* C24: the transport layer does not retry.  One connect() creates at most
\* one socket (one TCP connect attempt) and returns.  One send_command
\* creates at most one socket, at its start, and none afterwards; it writes
\* its command document once, before which it had written nothing; the
\* sendall is reached only from the start of a call the caller made; and
\* when the call ends, with a result or with an exception, the thread is
\* back in the caller with nothing written in that step.
C24_NoRetry ==
    [][\A t \in threads :
        /\ (\E ok \in BOOLEAN : Connect(t, ok)) =>
              /\ nsock' <= nsock + 1
              /\ pc'[t] = "idle"
              /\ inflight' = inflight
        /\ (\E ok \in BOOLEAN : ScBegin(t, ok)) =>
              /\ nsock' <= nsock + 1
              /\ nsock' = nsock + 1 <=> call'[t].didConnect
              /\ call'[t].sent = <<>> /\ ~call'[t].wrote
              /\ inflight' = inflight
        /\ CallStep(t) =>
              /\ nsock' = nsock
              /\ call'[t].sent \notin {call[t].sent, <<>>} =>
                    /\ ~call[t].wrote /\ call[t].sent = <<>>
                    /\ call'[t].sent =
                          CommandJson(CommandType, call[t].params)
                    /\ inflight'[held[t]] = inflight[held[t]] + 1
              /\ inflight'[held[t]] > inflight[held[t]] => ~call[t].wrote
              /\ call'[t] = NewCall =>
                    /\ pc'[t] = "idle"
                    /\ inflight'[held[t]] <= inflight[held[t]]
                    /\ \A s \in Socks : sockets'[s].owed <= sockets[s].owed
        /\ (pc'[t] = "send" /\ pc[t] # "send") =>
              nops'[t] = nops[t] + 1
    ]_vars

\* A send_command that had written its command and received part of a
\* reply has failed; the command is not in flight again.
C24_Witness ==
    /\ pc[1] = "idle" /\ held[1] # None
    /\ outcome[1].op = "send_command" /\ outcome[1].kind = "raise"
    /\ outcome[1].chunks > 0
    /\ inflight[held[1]] = 0

\* ---------------------------------------------------------------------------
\* The three classes
\* ---------------------------------------------------------------------------

\* An outcome without the literal texts that name the peer.
OutcomeCategory(o) ==
    [op |-> o.op, kind |-> o.kind, cat |-> o.cat, origin |-> o.origin,
     remote |-> o.remote, text |-> o.text, val |-> o.val, ret |-> o.ret]

\* The step that ends thread t's send_command leaves what class k leaves
\* when its try block produces res: the same category of outcome and the
\* same handle.
AgreesWith(k, t, res) ==
    \E o \in {SendCommandOutcome(k, res)} :
    /\ OutcomeCategory(outcome'[t]) = OutcomeCategory(o)
    /\ sock'[held[t]] =
          IF res.raised /\ Invalidates(o.cat) THEN None ELSE sock[held[t]]

BraceThenSpace(a) ==
    \E i \in 1..Len(a) :
        a[i] = RBrace /\ \A j \in (i + 1)..Len(a) : a[j] \in PyWs

\* C26: a pass of the receive loop that got a chunk (valid UTF-8) returns
\* the response in that very step, the peer's end still open and no recv
\* timed out in that step, exactly when the buffer with the chunk added
\* ends, white space aside, with '}' and decodes; otherwise (no closing
\* brace at the end, or the decode fails) the loop keeps the buffer and
\* reads on, and the call has no outcome yet.
C26_DecodeAtClosingBrace ==
    [][\A t \in threads :
        LET so == sockets[call[t].sock]
            n == Min(BufferSize, Len(so.inbuf))
            d == Utf8Decode(SubSeq(so.inbuf, 1, n))
            buf == call[t].accumulated \o d.s
        IN
        (/\ ScRecv(t)
         /\ ~so.closed /\ so.peer = "open" /\ so.inbuf # <<>> /\ d.ok) =>
           IF BraceThenSpace(buf) /\ RawDecode(buf).ok
           THEN /\ Completes(t)
                /\ SameButCounters(outcome'[t],
                      SendCommandOutcome(cls,
                          ParseResponse(cls, Utf8Encode(buf))))
                /\ outcome'[t].chunks = call[t].nrecv + 1
                /\ outcome'[t].timedOut = call[t].timedOut
                /\ sockets'[call[t].sock].peer = "open"
           ELSE /\ pc'[t] = "recv"
                /\ call'[t].accumulated = buf
                /\ outcome'[t] = outcome[t]
                /\ sock' = sock
    ]_vars

\* The loop has returned a result on its second chunk or later, the first
\* chunks having failed the test; the peer has not closed and no recv
\* timed out.
C26_Witness ==
    /\ pc[1] = "idle"
    /\ outcome[1].op = "send_command" /\ outcome[1].kind = "return"
    /\ outcome[1].chunks >= 2 /\ ~outcome[1].timedOut
    /\ sockets[1].peer = "open" /\ sock[1] = 1

\* ---------------------------------------------------------------------------
\* Grasshopper tools called without the argument they need
\* ---------------------------------------------------------------------------

\* The argument the tool needs is None or empty.
Missing(tool, a) ==
    \/ tool = "add_component" /\ a.component_name \in {ArgNone, ""}
    \/ /\ tool \in {"delete_component", "get_component_info",
                     "set_parameter_value", "get_parameter_value",
                     "bake_component"}
       /\ a.instance_id \in {ArgNone, ""} /\ a.nickname \in {ArgNone, ""}
    \/ /\ tool = "connect_components"
       /\ \/ /\ a.source_instance_id \in {ArgNone, ""}
             /\ a.source_nickname \in {ArgNone, ""}
          \/ /\ a.target_instance_id \in {ArgNone, ""}
             /\ a.target_nickname \in {ArgNone, ""}

\* C27: a Grasshopper tool called without the identifier or the non-empty
\* argument it needs returns {success: false, message} with a message, and
\* neither the accessor nor send_command is called: the lock, the slot,
\* the instances and their handles, the sockets and what was written to
\* them are unchanged.
C27_RefusedWithoutConnecting ==
    [][\A t \in threads, tool \in GhTools : \A a \in ArgsOf(tool) :
        (GhTool(t, tool, a) /\ Missing(tool, a)) =>
            /\ outcome'[t].op = tool /\ outcome'[t].kind = "return"
            /\ ~outcome'[t].ret /\ outcome'[t].local # ""
            /\ pc'[t] = "idle"
            /\ UNCHANGED <<slot, lock, nconn, sock, inflight, lastOut,
                           nsock, sockets, held, call, refused>>
    ]_vars

\* connect_components was called with a source and no target while the
\* singleton was connected; it is connected still and nothing is in
\* flight.
C27_Witness ==
    /\ outcome[1].op = "connect_components"
    /\ outcome[1].origin = "validation"
    /\ outcome[1].local =
          "Either target_instance_id or target_nickname is required"
    /\ slot # None /\ sock[slot] # None /\ inflight[slot] = 0
    /\ pc[1] = "idle" /\ lock = None

\* ---------------------------------------------------------------------------
\* Replies and the commands they answer
\* ---------------------------------------------------------------------------

\* C28: a command is written to a socket that holds nothing of an earlier
\* command: no byte of an earlier reply is readable or still to arrive and
\* no earlier command is unanswered, so all the call will receive is the
\* reply to its own command.
C28_RepliesDoNotLeak ==
    [][\A t \in threads :
        (ScSend(t) /\ call'[t].wrote) =>
            LET so == sockets[sock[held[t]]] IN
            so.inbuf = <<>> /\ so.todo = <<>> /\ so.owed = 0
    ]_vars

\* ---------------------------------------------------------------------------
\* Sockets that are given up
\* ---------------------------------------------------------------------------

\* C29: whenever the handle of an instance goes from a socket to none,
\* close() has been called on that socket, and the socket that a failed
\* connect() created and did not keep has been closed too.
C29_NoSocketDroppedUnclosed ==
    [][\A c \in 1..nconn :
        /\ (sock[c] # None /\ sock'[c] = None) => sockets'[sock[c]].closed
        /\ (sock[c] = None /\ sock'[c] = None /\ nsock' = nsock + 1
              /\ \E t \in threads : held[t] = c /\ nops'[t] # nops[t]) =>
                sockets'[nsock + 1].closed
    ]_vars

\* ---------------------------------------------------------------------------
\* One connection for many commands
\* ---------------------------------------------------------------------------

\* C30: a send_command that returns a result leaves the handle as it was,
\* on the socket it received from, which has not been closed; and a
\* send_command that follows one that returned a result on the same
\* instance makes no TCP connect: it creates no socket and uses the handle
\* it found.
C30_SuccessKeepsSocket ==
    [][\A t \in threads :
        /\ (Completes(t) /\ outcome'[t].kind = "return") =>
              /\ sock'[held[t]] = sock[held[t]]
              /\ sock'[held[t]] # None
              /\ sock'[held[t]] = call[t].sock
              /\ ~sockets'[sock'[held[t]]].closed
              /\ nsock' = nsock
        /\ ((\E ok \in BOOLEAN : ScBegin(t, ok))
              /\ lastOut[held[t]].op = "send_command"
              /\ lastOut[held[t]].kind = "return") =>
              /\ nsock' = nsock /\ sock' = sock
              /\ ~call'[t].didConnect
              /\ pc'[t] = "send"
    ]_vars

\* The second of two commands in a row is receiving its reply on the one
\* socket ever created: the first returned a result and the second found
\* the handle and did not connect.
C30_Witness ==
    /\ pc[1] = "recv" /\ held[1] # None
    /\ call[1].prev.op = "send_command" /\ call[1].prev.kind = "return"
    /\ ~call[1].didConnect
    /\ nsock = 1 /\ sock[held[1]] = 1 /\ call[1].sock = 1
    /\ sockets[1].inbuf = RespSuccess

====
